---- MODULE Spec2Model ----
(***************************************************************************)
(* A model of the evaluation tooling of lmrl-gym:                          *)
(*   - JAXSeq/JaxSeq/generation_eval.py: generate_language (batched        *)
(*     generation), metric_max_over_references and compute_metrics;        *)
(*   - llm_rl_scripts/wordle/bc/create_percent_bc_data.py: the script that *)
(*     keeps the top fraction of rollout records by cumulative reward.     *)
(* Each of the three programs has its own specification (SpecGen,          *)
(* SpecFilter, SpecMetrics); the variables of the other two stay idle.     *)
(*                                                                         *)
(* Python lists are sequences, a str is the sequence of its whitespace     *)
(* separated tokens where the code tokenises it, and an opaque value       *)
(* otherwise.  An Optional[int] is None (the empty tuple) or Some(k).      *)
(***************************************************************************)
EXTENDS Integers, Sequences, FiniteSets

\* ------------------------------------------------------------------------
\* Bounds of the model
\* ------------------------------------------------------------------------
MaxLen == 3          \* longest prompts / references list given to generate_language
MaxBsize == 3        \* largest bsize
MaxGenBatches == 2   \* largest generation_batches that is not None
MaxLines == 20       \* most lines of the file read by the reward-filtering script
MaxSpecial == 2      \* most lines of that file that differ from the common record
MaxRecords == 2      \* most records in the generation_data given to compute_metrics
MaxRefs == 2         \* most reference strings of one record

\* ------------------------------------------------------------------------
\* Helpers shared by the programs
\* ------------------------------------------------------------------------
Min(a, b) == IF a <= b THEN a ELSE b

\* Optional[int]: None, or Some(k) holding the integer k.
None == <<>>
Some(k) == <<k>>

\* Python's s[lo:hi] for 0 <= lo <= hi: the elements with 0-based index in
\* [lo, hi), clamped to the length of s.
Slice(s, lo, hi) == SubSeq(s, Min(lo, Len(s)) + 1, Min(hi, Len(s)))

\* All sequences over S of length exactly n.
SeqsOfLen(S, n) == [1..n -> S]

\* All sequences over S of length at most n.
SeqsUpTo(S, n) == UNION {SeqsOfLen(S, k) : k \in 0..n}

RECURSIVE Flatten(_)
Flatten(ss) == IF ss = <<>> THEN <<>> ELSE Head(ss) \o Flatten(Tail(ss))

\* ------------------------------------------------------------------------
\* generate_language (generation_eval.py)
\* ------------------------------------------------------------------------
PromptStrs == {"p", "q"}
ReferenceLists == {<<>>, <<"r">>}
OutputStrs == {"g", "h"}

VARIABLES
    prompts,            \* the parameter; rebound to the current batch by the loop
    references,         \* the parameter; rebound to the current batch by the loop
    bsize,
    generation_batches, \* None or Some(k)
    batches,            \* list of (prompts slice, references slice)
    bi,                 \* i of the loop that builds the batches (line 29)
    li,                 \* i of enumerate(batches) (line 34)
    all_generations,
    gpc,                \* "idle", "assert", "build", "loop", "done", "AssertionError"
    prompts0,           \* history: the prompts argument as passed by the caller
    references0,        \* history: the references argument as passed by the caller
    calls,              \* history: input_strs of each generate_from_str call
    produced            \* history: output_strs returned by each call

genVars == <<prompts, references, bsize, generation_batches, batches, bi, li,
             all_generations, gpc, prompts0, references0, calls, produced>>

VARIABLES
    all_data,           \* the records read so far, in file order
    all_data_filtered,
    outfile,            \* the records written so far, one per line
    wi,                 \* number of items of all_data_filtered already written
    fpc                 \* "idle", "read", "sort", "write", "done"

filterVars == <<all_data, all_data_filtered, outfile, wi, fpc>>

VARIABLES
    generation_data,    \* the argument of compute_metrics
    predictions,        \* line 112
    cm_references,      \* line 112, the local variable references
    rouge1,             \* line 114, the scores computed so far
    rougel,             \* line 115
    exact_match_scores, \* line 116
    ri,                 \* number of records the current comprehension has done
    ki,                 \* number of references the current max-over-references call has scored
    scores_for_references,
    result,             \* None, or Some(the returned dict)
    mpc,                \* "idle", "unpack", "rouge1", "rougeL", "exact_match",
                        \* "rest", "done", "ValueError"
    returns             \* history: one entry per finished metric_max_over_references call

metricVars == <<generation_data, predictions, cm_references, rouge1, rougel,
                exact_match_scores, ri, ki, scores_for_references, result, mpc,
                returns>>

vars == <<genVars, filterVars, metricVars>>

GenIdle ==
    /\ prompts = <<>> /\ references = <<>> /\ bsize = 1
    /\ generation_batches = None /\ batches = <<>> /\ bi = 0 /\ li = 0
    /\ all_generations = <<>> /\ gpc = "idle" /\ prompts0 = <<>>
    /\ references0 = <<>> /\ calls = <<>> /\ produced = <<>>

GenInit ==
    /\ prompts \in SeqsUpTo(PromptStrs, MaxLen)
    /\ references \in SeqsUpTo(ReferenceLists, MaxLen)
    /\ bsize \in 1..MaxBsize
    /\ generation_batches \in {Some(k) : k \in 0..MaxGenBatches} \cup {None}
    /\ batches = <<>> /\ bi = 0 /\ li = 0
    /\ all_generations = <<>>
    /\ gpc = "assert"
    /\ prompts0 = prompts /\ references0 = references
    /\ calls = <<>> /\ produced = <<>>

\* The assertion left out.
LengthsAgreeUnchecked(ps, rs) == TRUE

\* line 26: assert len(prompts) == len(references)
LengthsAgree(ps, rs) == Len(ps) = Len(rs)

AssertLengths ==
    /\ gpc = "assert"
    /\ gpc' = IF LengthsAgree(prompts, references) THEN "build" ELSE "AssertionError"
    /\ UNCHANGED <<prompts, references, bsize, generation_batches, batches, bi, li,
                   all_generations, prompts0, references0, calls, produced>>
    /\ UNCHANGED <<filterVars, metricVars>>

\* The references sliced one element too far to the right.
BatchAtShifted(ps, rs, i, b) == <<Slice(ps, i, i + b), Slice(rs, i + 1, i + b + 1)>>

\* line 30: the pair appended for loop value i
BatchAt(ps, rs, i, b) == <<Slice(ps, i, i + b), Slice(rs, i, i + b)>>

\* The range stepping by 1 instead of bsize: overlapping batches.
BuildBatchStepOne ==
    /\ gpc = "build"
    /\ bi < Len(prompts)
    /\ batches' = Append(batches, BatchAt(prompts, references, bi, bsize))
    /\ bi' = bi + 1
    /\ UNCHANGED <<prompts, references, bsize, generation_batches, li,
                   all_generations, gpc, prompts0, references0, calls, produced>>
    /\ UNCHANGED <<filterVars, metricVars>>

\* lines 28-30, one iteration of range(0, len(prompts), bsize)
BuildBatch ==
    /\ gpc = "build"
    /\ bi < Len(prompts)
    /\ batches' = Append(batches, BatchAt(prompts, references, bi, bsize))
    /\ bi' = bi + bsize
    /\ UNCHANGED <<prompts, references, bsize, generation_batches, li,
                   all_generations, gpc, prompts0, references0, calls, produced>>
    /\ UNCHANGED <<filterVars, metricVars>>

\* lines 29-32, the range is exhausted
BuildDone ==
    /\ gpc = "build"
    /\ bi >= Len(prompts)
    /\ gpc' = "loop"
    /\ UNCHANGED <<prompts, references, bsize, generation_batches, batches, bi, li,
                   all_generations, prompts0, references0, calls, produced>>
    /\ UNCHANGED <<filterVars, metricVars>>

\* The comparison off by one: i > generation_batches.
TerminateEarlyLate(gb, i) == gb # None /\ i > gb[1]

\* line 37: generation_batches is not None and i >= generation_batches
TerminateEarly(gb, i) == gb # None /\ i >= gb[1]

\* lines 51-52: zip(prompts, references, generations) as records
Zip3(ps, rs, gs) ==
    [j \in 1..Min(Len(ps), Min(Len(rs), Len(gs))) |->
        [prompt |-> ps[j], reference |-> rs[j], generation |-> gs[j]]]

\* What generate_from_str may return for a batch: any list of strings, of the
\* length of the batch or one shorter or longer.
OutputsFor(batch) ==
    UNION {SeqsOfLen(OutputStrs, n) :
              n \in {m \in {Len(batch) - 1, Len(batch), Len(batch) + 1} : m >= 0}}

\* lines 34-38: the break
LoopBreak ==
    /\ gpc = "loop"
    /\ li < Len(batches)
    /\ TerminateEarly(generation_batches, li)
    /\ prompts' = batches[li + 1][1]
    /\ references' = batches[li + 1][2]
    /\ gpc' = "done"
    /\ UNCHANGED <<bsize, generation_batches, batches, bi, li, all_generations,
                   prompts0, references0, calls, produced>>
    /\ UNCHANGED <<filterVars, metricVars>>

\* lines 34-52: one iteration that calls the inference
Generate ==
    /\ gpc = "loop"
    /\ li < Len(batches)
    /\ ~TerminateEarly(generation_batches, li)
    /\ prompts' = batches[li + 1][1]
    /\ references' = batches[li + 1][2]
    /\ \E generations \in OutputsFor(prompts') :
          /\ calls' = Append(calls, prompts')
          /\ produced' = Append(produced, generations)
          /\ all_generations' =
                all_generations \o Zip3(prompts', references', generations)
    /\ li' = li + 1
    /\ UNCHANGED <<bsize, generation_batches, batches, bi, gpc, prompts0, references0>>
    /\ UNCHANGED <<filterVars, metricVars>>

\* lines 34, 54: enumerate(batches) is exhausted
LoopExhausted ==
    /\ gpc = "loop"
    /\ li >= Len(batches)
    /\ gpc' = "done"
    /\ UNCHANGED <<prompts, references, bsize, generation_batches, batches, bi, li,
                   all_generations, prompts0, references0, calls, produced>>
    /\ UNCHANGED <<filterVars, metricVars>>

GenNext ==
    \/ AssertLengths
    \/ BuildBatch
    \/ BuildDone
    \/ LoopBreak
    \/ Generate
    \/ LoopExhausted

\* ------------------------------------------------------------------------
\* create_percent_bc_data.py
\* ------------------------------------------------------------------------
\* The records a line of the input file may hold: the common one, one with a
\* larger cumulative reward, one with a smaller, and one that differs from
\* the common record but has the same cumulative reward.
CommonRecord == [reward |-> <<-1, 0>>]
SpecialRecords == {[reward |-> <<0>>], [reward |-> <<-1, -1>>], [reward |-> <<0, -1>>]}
Records == {CommonRecord} \cup SpecialRecords

FilterIdle ==
    /\ all_data = <<>> /\ all_data_filtered = <<>> /\ outfile = <<>>
    /\ wi = 0 /\ fpc = "idle"

FilterInit ==
    /\ all_data = <<>> /\ all_data_filtered = <<>> /\ outfile = <<>>
    /\ wi = 0 /\ fpc = "read"

RECURSIVE sum(_)
\* Python's sum over a list of numbers
sum(xs) == IF xs = <<>> THEN 0 ELSE Head(xs) + sum(Tail(xs))

\* line 14: key=lambda x: sum(x['reward'])
key(x) == sum(x.reward)

NumSpecial(s) == Cardinality({i \in 1..Len(s) : s[i] \in SpecialRecords})

\* lines 10-12: one line of the file is parsed and appended
ReadLine ==
    /\ fpc = "read"
    /\ Len(all_data) < MaxLines
    /\ \E item \in Records :
          /\ item \in SpecialRecords => NumSpecial(all_data) < MaxSpecial
          /\ all_data' = Append(all_data, item)
    /\ UNCHANGED <<all_data_filtered, outfile, wi, fpc>>
    /\ UNCHANGED <<genVars, metricVars>>

\* line 10: the file is exhausted
ReadEOF ==
    /\ fpc = "read"
    /\ fpc' = "sort"
    /\ UNCHANGED <<all_data, all_data_filtered, outfile, wi>>
    /\ UNCHANGED <<genVars, metricVars>>

\* reverse=True left out: x goes after the elements with a key <= its own.
InsertAscending(t, x) ==
    LET k == Cardinality({i \in 1..Len(t) : key(t[i]) <= key(x)})
    IN  SubSeq(t, 1, k) \o <<x>> \o SubSeq(t, k + 1, Len(t))

\* x inserted into the list t, which is sorted by non-increasing key, after
\* every element whose key is >= its own (sorted is stable, and with
\* reverse=True keeps the original order of elements with equal keys).
InsertSorted(t, x) ==
    LET k == Cardinality({i \in 1..Len(t) : key(t[i]) >= key(x)})
    IN  SubSeq(t, 1, k) \o <<x>> \o SubSeq(t, k + 1, Len(t))

RECURSIVE sorted(_)
\* line 14: sorted(all_data, key=..., reverse=True)
sorted(s) ==
    IF s = <<>> THEN <<>>
    ELSE InsertSorted(sorted(SubSeq(s, 1, Len(s) - 1)), s[Len(s)])

\* line 14: int(len(all_data) * percentage) with percentage = 0.1 (line 6).
\* The double nearest to 0.1 is a little above 1/10, so the rounded product
\* n * 0.1 is never below n/10 and never reaches the next integer for any n a
\* list can have: truncating it gives the integer quotient of n by 10.
KeepCount(n) == n \div 10

\* line 14
SortAndSlice ==
    /\ fpc = "sort"
    /\ all_data_filtered' = Slice(sorted(all_data), 0, KeepCount(Len(all_data)))
    /\ fpc' = "write"
    /\ UNCHANGED <<all_data, outfile, wi>>
    /\ UNCHANGED <<genVars, metricVars>>

\* lines 17-18: one item is written
WriteItem ==
    /\ fpc = "write"
    /\ wi < Len(all_data_filtered)
    /\ outfile' = Append(outfile, all_data_filtered[wi + 1])
    /\ wi' = wi + 1
    /\ UNCHANGED <<all_data, all_data_filtered, fpc>>
    /\ UNCHANGED <<genVars, metricVars>>

\* lines 16-18: every item has been written and the file is closed
WriteDone ==
    /\ fpc = "write"
    /\ wi >= Len(all_data_filtered)
    /\ fpc' = "done"
    /\ UNCHANGED <<all_data, all_data_filtered, outfile, wi>>
    /\ UNCHANGED <<genVars, metricVars>>

FilterNext ==
    \/ ReadLine
    \/ ReadEOF
    \/ SortAndSlice
    \/ WriteItem
    \/ WriteDone

\* ------------------------------------------------------------------------
\* metric_max_over_references, the metrics and compute_metrics
\* (generation_eval.py)
\* ------------------------------------------------------------------------
\* A str is modelled by the list of its whitespace separated tokens.  The
\* tokens in use: "a", "b", and "B." (upper case, with punctuation).
PredictionStrs == {<<"a", "B.">>, <<"a", "a", "a">>}
ReferenceStrs == {<<"a", "b">>, <<"a">>}

MetricsIdle ==
    /\ generation_data = <<>> /\ predictions = <<>> /\ cm_references = <<>>
    /\ rouge1 = <<>> /\ rougel = <<>> /\ exact_match_scores = <<>>
    /\ ri = 0 /\ ki = 0 /\ scores_for_references = <<>>
    /\ result = None /\ mpc = "idle" /\ returns = <<>>

MetricsInit ==
    /\ generation_data \in
          SeqsUpTo([prompt : {"p"}, generation : PredictionStrs,
                    reference : SeqsUpTo(ReferenceStrs, MaxRefs)], MaxRecords)
    /\ predictions = <<>> /\ cm_references = <<>>
    /\ rouge1 = <<>> /\ rougel = <<>> /\ exact_match_scores = <<>>
    /\ ri = 0 /\ ki = 0 /\ scores_for_references = <<>>
    /\ result = None /\ mpc = "unpack" /\ returns = <<>>

Range(s) == {s[i] : i \in 1..Len(s)}

\* str.lower() on one token
lower(tok) == IF tok = "B." THEN "b." ELSE tok

\* lines 72-74: remove_punc on one token
remove_punc(tok) == IF tok = "b." THEN "b" ELSE IF tok = "B." THEN "B" ELSE tok

RECURSIVE white_space_fix(_)
\* lines 69-70: ' '.join(text.split()) keeps the non-empty tokens
white_space_fix(toks) ==
    IF toks = <<>> THEN <<>>
    ELSE IF Head(toks) = "" THEN white_space_fix(Tail(toks))
    ELSE <<Head(toks)>> \o white_space_fix(Tail(toks))

\* lines 66-79
normalize_answer(s) ==
    white_space_fix([i \in 1..Len(s) |-> remove_punc(lower(s[i]))])

\* lines 91-92
exact_match(prediction, reference) ==
    IF normalize_answer(prediction) = normalize_answer(reference) THEN 1 ELSE 0

\* The tokens rouge_score scores: lower-cased, punctuation taken out.
RougeTokens(s) == normalize_answer(s)

\* How often the token t occurs in the token list s.
Occurrences(s, t) == Cardinality({i \in 1..Len(s) : s[i] = t})

\* The F-measure 2 * m / (lp + lr) of m matches between lists of lp and lr
\* tokens, in thousandths; 0 when nothing matches.
FMeasure(m, lp, lr) == IF m = 0 THEN 0 ELSE (2000 * m) \div (lp + lr)

\* lines 81-84: rouge1 F-measure, the unigram overlap of the two token lists
rouge1_score(prediction, reference) ==
    LET p == RougeTokens(prediction)
        r == RougeTokens(reference)
        RECURSIVE Overlap(_)
        Overlap(T) ==
            IF T = {} THEN 0
            ELSE LET t == CHOOSE x \in T : TRUE
                 IN  Min(Occurrences(p, t), Occurrences(r, t)) + Overlap(T \ {t})
    IN  FMeasure(Overlap(Range(p)), Len(p), Len(r))

RECURSIVE Lcs(_, _)
\* Length of the longest common subsequence of two token lists.
Lcs(p, r) ==
    IF p = <<>> \/ r = <<>> THEN 0
    ELSE IF Head(p) = Head(r) THEN 1 + Lcs(Tail(p), Tail(r))
    ELSE LET x == Lcs(Tail(p), r)
             y == Lcs(p, Tail(r))
         IN  IF x >= y THEN x ELSE y

\* lines 86-89: rougeL F-measure, from the longest common subsequence
rougeL_score(prediction, reference) ==
    LET p == RougeTokens(prediction)
        r == RougeTokens(reference)
    IN  FMeasure(Lcs(p, r), Len(p), Len(r))

\* The metric_fn each comprehension of compute_metrics passes (lines 114-116).
MetricFn(fn, prediction, ground_truth) ==
    CASE fn = "rouge1" -> rouge1_score(prediction, ground_truth)
      [] fn = "rougeL" -> rougeL_score(prediction, ground_truth)
      [] fn = "exact_match" -> exact_match(prediction, ground_truth)

RECURSIVE SmallestOf(_)
\* min() in place of max()
SmallestOf(xs) ==
    IF Len(xs) = 1 THEN xs[1]
    ELSE LET m == SmallestOf(Tail(xs)) IN IF Head(xs) <= m THEN Head(xs) ELSE m

RECURSIVE max(_)
\* Python's max() of a non-empty list
max(xs) ==
    IF Len(xs) = 1 THEN xs[1]
    ELSE LET m == max(Tail(xs)) IN IF Head(xs) >= m THEN Head(xs) ELSE m

\* line 112: zip(*map(...)) over an empty generation_data yields nothing to
\* unpack into the three names, which raises ValueError.
Unpack ==
    /\ mpc = "unpack"
    /\ IF generation_data = <<>>
       THEN /\ mpc' = "ValueError"
            /\ UNCHANGED <<predictions, cm_references>>
       ELSE /\ predictions' =
                  [i \in 1..Len(generation_data) |-> generation_data[i].generation]
            /\ cm_references' =
                  [i \in 1..Len(generation_data) |-> generation_data[i].reference]
            /\ mpc' = "rouge1"
    /\ UNCHANGED <<generation_data, rouge1, rougel, exact_match_scores, ri, ki,
                   scores_for_references, result, returns>>
    /\ UNCHANGED <<genVars, filterVars>>

InComprehension == mpc \in {"rouge1", "rougeL", "exact_match"}

\* lines 60-62: one iteration of the loop over the references of record ri + 1
ScoreReference ==
    /\ InComprehension
    /\ ki < Len(cm_references[ri + 1])
    /\ LET prediction == predictions[ri + 1]
           ground_truth == cm_references[ri + 1][ki + 1]
           score == MetricFn(mpc, prediction, ground_truth)
       IN  scores_for_references' =
               Append(scores_for_references,
                      [prediction |-> prediction, ground_truth |-> ground_truth,
                       score |-> score])
    /\ ki' = ki + 1
    /\ UNCHANGED <<generation_data, predictions, cm_references, rouge1, rougel,
                   exact_match_scores, ri, result, mpc, returns>>
    /\ UNCHANGED <<genVars, filterVars>>

\* The history entry of a finished metric_max_over_references call.
Returned(value) ==
    [fn |-> mpc, prediction |-> predictions[ri + 1],
     references |-> cm_references[ri + 1],
     calls |-> scores_for_references, value |-> value]

\* The comprehension that follows (lines 114-116), then lines 118-134.
NextPc(pc) ==
    CASE pc = "rouge1" -> "rougeL"
      [] pc = "rougeL" -> "exact_match"
      [] pc = "exact_match" -> "rest"

\* line 63 with a non-empty list: the call returns the largest score and the
\* comprehension (lines 114-116) goes on to its next record, or ends.
ReturnMax ==
    /\ InComprehension
    /\ ki >= Len(cm_references[ri + 1])
    /\ scores_for_references # <<>>
    /\ LET value ==
               max([k \in 1..Len(scores_for_references) |->
                       scores_for_references[k].score])
       IN  /\ returns' = Append(returns, Returned(Some(value)))
           /\ rouge1' = IF mpc = "rouge1" THEN Append(rouge1, value) ELSE rouge1
           /\ rougel' = IF mpc = "rougeL" THEN Append(rougel, value) ELSE rougel
           /\ exact_match_scores' =
                  IF mpc = "exact_match" THEN Append(exact_match_scores, value)
                  ELSE exact_match_scores
    /\ scores_for_references' = <<>>
    /\ ki' = 0
    /\ IF ri + 1 < Len(predictions)
       THEN ri' = ri + 1 /\ mpc' = mpc
       ELSE ri' = 0 /\ mpc' = NextPc(mpc)
    /\ UNCHANGED <<generation_data, predictions, cm_references, result>>
    /\ UNCHANGED <<genVars, filterVars>>

\* line 63 with an empty list: max() raises ValueError, which nothing in
\* compute_metrics catches.
RaiseEmptyMax ==
    /\ InComprehension
    /\ ki >= Len(cm_references[ri + 1])
    /\ scores_for_references = <<>>
    /\ returns' = Append(returns, Returned(None))
    /\ mpc' = "ValueError"
    /\ UNCHANGED <<generation_data, predictions, cm_references, rouge1, rougel,
                   exact_match_scores, ri, ki, scores_for_references, result>>
    /\ UNCHANGED <<genVars, filterVars>>

\* lines 100-101: the n-grams of one prediction
NGrams(prediction, n) ==
    LET tokens == [i \in 1..Len(prediction) |-> lower(prediction[i])]
    IN  [i \in 1..(IF Len(tokens) >= n THEN Len(tokens) - n + 1 ELSE 0) |->
            SubSeq(tokens, i, i + n - 1)]

\* lines 97-106: the fraction <<distinct n-grams, n-grams>>, <<1, 1>> for 1.0
diversity(preds, n) ==
    LET all_n_grams == Flatten([i \in 1..Len(preds) |-> NGrams(preds[i], n)])
    IN  IF Len(all_n_grams) = 0 THEN <<1, 1>>
        ELSE <<Cardinality(Range(all_n_grams)), Len(all_n_grams)>>

\* lines 108-109
gram_length(prediction) == Len(prediction)

RECURSIVE SumSeq(_)
SumSeq(xs) == IF xs = <<>> THEN 0 ELSE Head(xs) + SumSeq(Tail(xs))

\* xs.mean() as the fraction <<sum, count>>
Mean(xs) == <<SumSeq(xs), Len(xs)>>

\* xs.std() / np.sqrt(len(xs)), through its square, the fraction
\* <<n * sum of squares - square of the sum, n^3>>
StdErr(xs) ==
    LET n == Len(xs)
        sq == [i \in 1..n |-> xs[i] * xs[i]]
    IN  <<n * SumSeq(sq) - SumSeq(xs) * SumSeq(xs), n * n * n>>

\* lines 118-134
ReturnMetrics ==
    /\ mpc = "rest"
    /\ LET diversity2 == diversity(predictions, 2)
           diversity3 == diversity(predictions, 3)
           avg_length_scores ==
               [i \in 1..Len(predictions) |-> gram_length(predictions[i])]
       IN  result' = Some(
               [rouge1 |-> Mean(rouge1),
                rouge1_err |-> StdErr(rouge1),
                rougeL |-> Mean(rougel),
                rougeL_err |-> StdErr(rougel),
                exact_match |-> Mean(exact_match_scores),
                exact_match_err |-> StdErr(exact_match_scores),
                diversity2 |-> diversity2,
                diversity3 |-> diversity3,
                avg_length |-> Mean(avg_length_scores),
                avg_length_err |-> StdErr(avg_length_scores)])
    /\ mpc' = "done"
    /\ UNCHANGED <<generation_data, predictions, cm_references, rouge1, rougel,
                   exact_match_scores, ri, ki, scores_for_references, returns>>
    /\ UNCHANGED <<genVars, filterVars>>

MetricsNext ==
    \/ Unpack
    \/ ScoreReference
    \/ ReturnMax
    \/ RaiseEmptyMax
    \/ ReturnMetrics

\* One specification per program; the other two programs are not running.
InitGen == GenInit /\ FilterIdle /\ MetricsIdle
SpecGen == InitGen /\ [][GenNext]_vars

InitFilter == FilterInit /\ GenIdle /\ MetricsIdle
SpecFilter == InitFilter /\ [][FilterNext]_vars

InitMetrics == MetricsInit /\ GenIdle /\ FilterIdle
SpecMetrics == InitMetrics /\ [][MetricsNext]_vars

\* ------------------------------------------------------------------------
\* Properties of create_percent_bc_data.py
\* ------------------------------------------------------------------------
\* How many times the record r occurs in the list s.
Count(s, r) == Cardinality({i \in 1..Len(s) : s[i] = r})

\* C2: given N input records the script writes exactly floor(N * 0.1) of
\* them (none when N < 10); the written records are a sub-multiset of the
\* input, in non-increasing order of cumulative reward, and each has a
\* cumulative reward >= that of every input record that is not written.
C2_TopTenth ==
    fpc = "done" =>
        LET N == Len(all_data)
            W == Len(outfile)
        IN  /\ 10 * W <= N /\ N < 10 * (W + 1)
            /\ N < 10 => outfile = <<>>
            /\ \A r \in Records : Count(outfile, r) <= Count(all_data, r)
            /\ \A j \in 1..(W - 1) :
                  sum(outfile[j].reward) >= sum(outfile[j + 1].reward)
            /\ \A r \in Records :
                  Count(all_data, r) > Count(outfile, r) =>
                      \A j \in 1..W : sum(outfile[j].reward) >= sum(r.reward)

C2_Witness ==
    /\ fpc = "done" /\ Len(all_data) = 20 /\ Len(outfile) = 2
    /\ all_data[20] = [reward |-> <<0>>]
    /\ all_data[3] = [reward |-> <<-1, -1>>]
    /\ outfile = <<[reward |-> <<0>>], CommonRecord>>

\* ------------------------------------------------------------------------
\* Properties of generate_language
\* ------------------------------------------------------------------------
\* Every call so far returned exactly one output string per input string.
OneOutputPerInput ==
    \A c \in 1..Len(calls) : Len(produced[c]) = Len(calls[c])

CeilDiv(n, b) == (n + b - 1) \div b

\* The records for the first m prompts of the caller's input, the generation
\* of the i-th being the i-th output string the inference produced.
ExpectedRecords(m) ==
    [i \in 1..m |-> [prompt |-> prompts0[i], reference |-> references0[i],
                     generation |-> Flatten(produced)[i]]]

\* C1: with generation_batches = None, equally long prompts and references,
\* and an inference returning one output per input, generate_language returns
\* exactly len(prompts) records in input order, the i-th holding prompts[i],
\* references[i] and the output produced for prompts[i].
C1_AllRecordsInOrder ==
    (gpc = "done" /\ generation_batches = None /\ OneOutputPerInput)
        => /\ Len(all_generations) = Len(prompts0)
           /\ all_generations = ExpectedRecords(Len(prompts0))

C1_Witness ==
    /\ gpc = "done" /\ generation_batches = None /\ OneOutputPerInput
    /\ Len(prompts0) = 3 /\ bsize = 2
    /\ prompts0[1] # prompts0[2] /\ references0[2] # references0[3]
    /\ produced[1][1] # produced[1][2]
    /\ Len(all_generations) = 3

\* C4: with generation_batches = k the inference is never called after the
\* k-th batch, it is called exactly min(k, ceil(n / bsize)) times by the time
\* the function returns, and (one output per input) the result holds the
\* records of the first min(n, k * bsize) prompts in input order; with k = 0
\* there is no call and the result is empty.
C4_EarlyTermination ==
    generation_batches # None =>
        LET k == generation_batches[1]
            n == Len(prompts0)
        IN  /\ Len(calls) <= k
            /\ gpc = "done" =>
                  /\ Len(calls) = Min(k, CeilDiv(n, bsize))
                  /\ OneOutputPerInput =>
                        all_generations = ExpectedRecords(Min(n, k * bsize))
                  /\ k = 0 => (calls = <<>> /\ all_generations = <<>>)

C4_Witness ==
    /\ gpc = "done" /\ generation_batches = Some(1) /\ bsize = 2
    /\ Len(prompts0) = 3 /\ Len(batches) = 2 /\ Len(calls) = 1
    /\ OneOutputPerInput /\ Len(all_generations) = 2

\* The prompts of the j-th batch, as a contiguous slice of the caller's list.
ContiguousSlice(j) ==
    SubSeq(prompts0, (j - 1) * bsize + 1, Min(j * bsize, Len(prompts0)))

BatchPrompts == [j \in 1..Len(batches) |-> batches[j][1]]

\* The batches partition the input into contiguous slices of bsize prompts,
\* the last one possibly shorter, none empty.
BatchesPartitionInput ==
    /\ Flatten(BatchPrompts) = prompts0
    /\ \A j \in 1..Len(batches) :
          /\ batches[j][1] = ContiguousSlice(j)
          /\ Len(batches[j][1]) >= 1
          /\ Len(batches[j][1]) <= bsize
          /\ j < Len(batches) => Len(batches[j][1]) = bsize

\* The inference has been called on the first batches, in order, one call each.
CallsArePrefixOfBatches ==
    /\ Len(calls) <= Len(batches)
    /\ \A c \in 1..Len(calls) : calls[c] = batches[c][1]
    /\ gpc = "loop" => Len(calls) = li

\* C5 as stated: whenever generate_language returns, every prompt has been
\* passed to the inference in exactly one call (the calls concatenate to the
\* input), whatever generation_batches is.
C5_Original ==
    gpc = "done" =>
        /\ BatchesPartitionInput
        /\ CallsArePrefixOfBatches
        /\ Flatten(calls) = prompts0

\* C5 amended: the batches built are contiguous slices that partition the
\* input (none empty, none longer than bsize, all but the last of exactly
\* bsize prompts); the inference is called on them one at a time in
\* increasing order, so each prompt is passed in at most one call; and each
\* prompt is passed in exactly one call when the loop is not terminated early
\* (generation_batches is None or at least the number of batches).
C5_Batching ==
    gpc \in {"loop", "done"} =>
        /\ BatchesPartitionInput
        /\ CallsArePrefixOfBatches
        /\ (gpc = "done" /\ (generation_batches = None
                               \/ generation_batches[1] >= Len(batches)))
              => Flatten(calls) = prompts0

C5_Witness ==
    /\ gpc = "done" /\ Len(prompts0) = 3 /\ bsize = 2
    /\ generation_batches = Some(2)
    /\ Len(calls) = 2 /\ Len(calls[1]) = 2 /\ Len(calls[2]) = 1
    /\ prompts0[1] # prompts0[2]

\* C6: when len(prompts) # len(references) the assertion fails before any
\* work: no batch is built, the inference is never called, and the function
\* never returns a list of records.
C6_MismatchRejected ==
    Len(prompts0) # Len(references0) =>
        /\ gpc \in {"assert", "AssertionError"}
        /\ batches = <<>> /\ calls = <<>> /\ all_generations = <<>>

C6_Witness ==
    /\ gpc = "AssertionError"
    /\ Len(prompts0) = 2 /\ Len(references0) = 3
    /\ calls = <<>> /\ all_generations = <<>>
\* ------------------------------------------------------------------------
\* Properties of metric_max_over_references and compute_metrics
\* ------------------------------------------------------------------------
\* The metric a key of the returned dict reports.
MetricOfKey(k) ==
    CASE k \in {"rouge1", "rouge1_err"} -> "ROUGE-1"
      [] k \in {"rougeL", "rougeL_err"} -> "ROUGE-L"
      [] k \in {"exact_match", "exact_match_err"} -> "exact match"
      [] k \in {"bleu", "bleu_err"} -> "BLEU"
      [] k \in {"diversity2", "diversity3"} -> "n-gram diversity"
      [] k \in {"avg_length", "avg_length_err"} -> "length"
      [] OTHER -> "other"

ReportedMetrics == {MetricOfKey(k) : k \in DOMAIN result[1]}

\* C3: the dict compute_metrics returns has an entry for ROUGE-1, ROUGE-L,
\* exact match, BLEU, n-gram diversity and length.
C3_AllMetricsReported ==
    mpc = "done" =>
        {"ROUGE-1", "ROUGE-L", "exact match", "BLEU", "n-gram diversity", "length"}
            \subseteq ReportedMetrics

HasEmptyReferenceList ==
    \E i \in 1..Len(generation_data) : generation_data[i].reference = <<>>

\* C7: metric_max_over_references calls metric_fn once per reference, in
\* order, with the prediction, and returns the largest score: a value >= the
\* score of every reference and equal to the score of one; with no reference
\* it raises instead of returning, and when a record of generation_data has
\* an empty reference list compute_metrics ends with that error, not a result.
C7_MaxOverReferences ==
    /\ \A c \in 1..Len(returns) :
          LET e == returns[c]
              n == Len(e.references)
          IN  /\ Len(e.calls) = n
              /\ \A k \in 1..n :
                    /\ e.calls[k].prediction = e.prediction
                    /\ e.calls[k].ground_truth = e.references[k]
                    /\ e.calls[k].score = MetricFn(e.fn, e.prediction, e.references[k])
              /\ n = 0 <=> e.value = None
              /\ n > 0 =>
                    /\ \A k \in 1..n : e.value[1] >= e.calls[k].score
                    /\ \E k \in 1..n : e.value[1] = e.calls[k].score
    /\ (\E c \in 1..Len(returns) : returns[c].value = None)
          => (mpc = "ValueError" /\ result = None)
    /\ HasEmptyReferenceList =>
          /\ mpc \notin {"rest", "done"} /\ result = None
          /\ (mpc # "idle" /\ ~ENABLED MetricsNext) => mpc = "ValueError"

C7_Witness ==
    /\ mpc = "ValueError"
    /\ Len(generation_data) = 2
    /\ generation_data[2].reference = <<>>
    /\ Len(returns) = 2
    /\ Len(returns[1].calls) = 2
    /\ returns[1].calls[1].score < returns[1].calls[2].score
    /\ returns[1].value = Some(returns[1].calls[2].score)
    /\ returns[2].value = None
====
